---- MODULE Spec2Model ----
(***************************************************************************)
(* A model of the Stripe webhook worker of stripeflare.                    *)
(*                                                                         *)
(* The repository holds two versions of the handler: src/main.ts (the      *)
(* original) and src/unnamed/part_003 (the annotated, revised handler).    *)
(* Both are modelled; the variable impl says which one a deployment runs.  *)
(*                                                                         *)
(* A request is handled as a straight run of code between suspension       *)
(* points (await reader.read(), await streamToBuffer, await                *)
(* constructEventAsync, await updateSubscribed); each action below is one  *)
(* such run.                                                               *)
(***************************************************************************)
EXTENDS Integers, Sequences, FiniteSets, TLC

(***************************************************************************)
(* Bounds of the model.                                                    *)
(***************************************************************************)
\* Number of requests that may be in flight at the same time.
NSlots == 2
\* Deliveries stop once side effects have run this often in total.
MaxRuns == 2

Slots == 1..NSlots

(***************************************************************************)
(* Bytes and text.  A body is a sequence of bytes (0..255); a text is a    *)
(* sequence of Unicode code points.                                        *)
(***************************************************************************)
REPLACEMENT == 65533
BOMCHAR == 65279

RECURSIVE Utf8Step(_, _, _, _, _, _, _)
\* The WHATWG UTF-8 decoder, not fatal: b the bytes, i the next index, cp the
\* code point being assembled, needed/seen the continuation bytes wanted and
\* read, lo..hi the range allowed for the next continuation byte.
Utf8Step(b, i, cp, needed, seen, lo, hi) ==
    IF i > Len(b)
    THEN IF needed # 0 THEN <<REPLACEMENT>> ELSE <<>>
    ELSE LET byte == b[i] IN
         IF needed = 0
         THEN IF byte <= 127
              THEN <<byte>> \o Utf8Step(b, i + 1, 0, 0, 0, 128, 191)
              ELSE IF byte >= 194 /\ byte <= 223
              THEN Utf8Step(b, i + 1, byte - 192, 1, 0, 128, 191)
              ELSE IF byte >= 224 /\ byte <= 239
              THEN Utf8Step(b, i + 1, byte - 224, 2, 0,
                            IF byte = 224 THEN 160 ELSE 128,
                            IF byte = 237 THEN 159 ELSE 191)
              ELSE IF byte >= 240 /\ byte <= 244
              THEN Utf8Step(b, i + 1, byte - 240, 3, 0,
                            IF byte = 240 THEN 144 ELSE 128,
                            IF byte = 244 THEN 143 ELSE 191)
              ELSE <<REPLACEMENT>> \o Utf8Step(b, i + 1, 0, 0, 0, 128, 191)
         ELSE IF byte < lo \/ byte > hi
              THEN <<REPLACEMENT>> \o Utf8Step(b, i, 0, 0, 0, 128, 191)
              ELSE IF seen + 1 = needed
                   THEN <<cp * 64 + (byte - 128)>>
                            \o Utf8Step(b, i + 1, 0, 0, 0, 128, 191)
                   ELSE Utf8Step(b, i + 1, cp * 64 + (byte - 128),
                                 needed, seen + 1, 128, 191)

\* new TextDecoder().decode(bytes): UTF-8, errors replaced by U+FFFD, and a
\* leading byte order mark dropped (ignoreBOM is false by default).
TextDecode(bytes) ==
    LET t == Utf8Step(bytes, 1, 0, 0, 0, 128, 191) IN
    IF Len(t) > 0 /\ t[1] = BOMCHAR THEN Tail(t) ELSE t

\* The UTF-8 encoding of one code point.
EncodeChar(c) ==
    IF c < 128 THEN <<c>>
    ELSE IF c < 2048 THEN <<192 + (c \div 64), 128 + (c % 64)>>
    ELSE IF c < 65536
    THEN <<224 + (c \div 4096), 128 + ((c \div 64) % 64), 128 + (c % 64)>>
    ELSE <<240 + (c \div 262144), 128 + ((c \div 4096) % 64),
           128 + ((c \div 64) % 64), 128 + (c % 64)>>

RECURSIVE TextEncode(_)
\* The UTF-8 encoding of a text: the bytes a MAC over a string is computed on.
TextEncode(t) ==
    IF t = <<>> THEN <<>> ELSE EncodeChar(Head(t)) \o TextEncode(Tail(t))

RECURSIVE ConcatChunksLastFirst(_)
\* A buffer that holds the chunks in the reverse of their order of arrival.
ConcatChunksLastFirst(chunks) ==
    IF chunks = <<>> THEN <<>>
    ELSE ConcatChunksLastFirst(Tail(chunks)) \o Head(chunks)

RECURSIVE ConcatChunks(_)
\* streamToBuffer's result for the chunks it collected: one buffer holding
\* every chunk, in the order of arrival.
ConcatChunks(chunks) ==
    IF chunks = <<>> THEN <<>> ELSE Head(chunks) \o ConcatChunks(Tail(chunks))

(***************************************************************************)
(* The signature verifier, stripe.webhooks.constructEventAsync.  It is a   *)
(* library primitive; it is modelled from its contract.  A MAC is perfect: *)
(* two MACs are equal exactly when key, timestamp and message are.         *)
(***************************************************************************)
Tolerance == 300
Now == Tolerance + 1

Mac(key, t, bytes) == [key |-> key, t |-> t, msg |-> bytes]

\* The payload the verifier works on: a Uint8Array is decoded as UTF-8 first,
\* a string is taken as it is.
VerifierText(arg) ==
    IF arg.kind = "bytes" THEN TextDecode(arg.val) ELSE arg.val

\* constructEventAsync(payload, header, secret): doc is what JSON.parse yields
\* on the signed document.  Parse the header, check the timestamp's age, check
\* the MAC over "t.payload", then parse the payload.
ConstructEvent(arg, header, secret, doc) ==
    IF ~header.wellformed
    THEN [ok |-> FALSE, errtype |-> "StripeSignatureVerificationError",
          err |-> "MalformedHeader"]
    ELSE IF Now - header.t > Tolerance
    THEN [ok |-> FALSE, errtype |-> "StripeSignatureVerificationError",
          err |-> "StaleSignature"]
    ELSE IF header.mac # Mac(secret, header.t, TextEncode(VerifierText(arg)))
    THEN [ok |-> FALSE, errtype |-> "StripeSignatureVerificationError",
          err |-> "SignatureMismatch"]
    ELSE IF ~doc.wellformed
    THEN [ok |-> FALSE, errtype |-> "SyntaxError", err |-> "MalformedPayload"]
    ELSE [ok |-> TRUE, errtype |-> "", err |-> ""]

(***************************************************************************)
(* Responses.                                                              *)
(***************************************************************************)
Response(status, msg) == [kind |-> "response", status |-> status, msg |-> msg]
\* The promise returned by fetch rejects: no Response is produced.
Uncaught(what) == [kind |-> "exception", status |-> 0, msg |-> what]
NoResponse == [kind |-> "none", status |-> 0, msg |-> ""]

(***************************************************************************)
(* Events.  A field that is null is the empty sequence (amount_total,      *)
(* customer_details) or NULLSTR (strings).                                 *)
(***************************************************************************)
NULLSTR == "<null>"
PLINK == "plink_expected"
MinimumAmount == 50

CHECKOUT == "checkout.session.completed"
SubscriptionTypes == {"customer.subscription.deleted",
                      "customer.subscription.updated",
                      "customer.subscription.paused"}
OTHERTYPE == "invoice.paid"

EventIds == {"evt_1", "evt_2"}

CheckoutObjects ==
    [payment_status : {"paid", "unpaid"},
     mode : {"payment", "subscription", "setup"},
     amount_total : {<<>>, <<0>>, <<MinimumAmount - 1>>, <<MinimumAmount>>,
                     <<10 * MinimumAmount>>},
     payment_link : {PLINK, "plink_other"},
     customer_details : {<<>>, <<[email |-> NULLSTR]>>, <<[email |-> ""]>>,
                         <<[email |-> "a@b.c"]>>}]

SubscriptionStatuses == {"active", "trialing", "past_due", "unpaid",
                         "canceled", "paused", "incomplete"}
SubscriptionObjects == [status : SubscriptionStatuses]

\* A paid one-off checkout through the expected payment link.
PaidCheckout(id) ==
    [wellformed |-> TRUE, id |-> id, type |-> CHECKOUT,
     object |-> [payment_status |-> "paid", mode |-> "payment",
                 amount_total |-> <<10 * MinimumAmount>>,
                 payment_link |-> PLINK,
                 customer_details |-> <<[email |-> "a@b.c"]>>]]

\* For every event id, one event of each kind: an unhandled one, a paid
\* checkout and a canceled subscription.
KindEvents ==
    [wellformed : {TRUE}, id : EventIds, type : {OTHERTYPE},
     object : {[none |-> TRUE]}]
    \cup {PaidCheckout(id) : id \in EventIds}
    \cup [wellformed : {TRUE}, id : EventIds,
          type : {"customer.subscription.deleted"},
          object : {[status |-> "canceled"]}]

\* Every event for the first event id; for the other ids, which stand for
\* the other events deliveries are mixed with, one event of each kind.
Events ==
    [wellformed : {TRUE}, id : {"evt_1"}, type : {CHECKOUT},
     object : CheckoutObjects]
    \cup [wellformed : {TRUE}, id : {"evt_1"}, type : SubscriptionTypes,
          object : SubscriptionObjects]
    \cup KindEvents

\* A payload JSON.parse rejects.
Malformed == [wellformed |-> FALSE]

(***************************************************************************)
(* Requests: fetch(request, env).  chunks are the chunks the body stream   *)
(* delivers before it ends; streamErr says that it ends with an error      *)
(* (the caller aborted) instead of end-of-stream.  doc is the document     *)
(* the sender serialized into the signed bytes.                            *)
(***************************************************************************)
WEBHOOKPATH == "/stripe-webhook"
MISSING == ""
WHSEC == "whsec_good"

GoodEnv ==
    [STRIPE_WEBHOOK_SIGNING_SECRET |-> WHSEC, STRIPE_SECRET |-> "sk_good",
     STRIPE_PUBLISHABLE_KEY |-> "pk_good", STRIPE_PAYMENT_LINK_ID |-> PLINK]

Envs ==
    {GoodEnv, [k \in DOMAIN GoodEnv |-> MISSING]}
    \cup {[GoodEnv EXCEPT ![k] = MISSING] : k \in DOMAIN GoodEnv}

\* The Stripe-Signature header "t=<t>,v1=<mac>" made by a sender holding key.
Sig(key, t, bytes) ==
    [present |-> TRUE, wellformed |-> TRUE, t |-> t, mac |-> Mac(key, t, bytes)]
\* No Stripe-Signature header (headers.get gives null), or an empty one.
NoSig ==
    [present |-> FALSE, wellformed |-> FALSE, t |-> 0, mac |-> Mac("", 0, <<>>)]
\* A header without the t=,v1= structure.
GarbledSig ==
    [present |-> TRUE, wellformed |-> FALSE, t |-> 0, mac |-> Mac("", 0, <<>>)]

\* "{}" stands for a JSON document in ASCII.
Body0 == <<123, 125>>
\* A document holding U+FFFD, encoded as EF BF BD.
Body1 == <<123, 239, 191, 189, 125>>
\* Bytes that are not valid UTF-8.
Body2 == <<123, 255, 125>>

\* What was signed, and the chunks that arrive.
BodyVariants ==
    {[signed |-> Body0, chunks |-> <<Body0>>],
     [signed |-> Body0, chunks |-> <<<<123>>, <<125>>>>],
     [signed |-> Body0, chunks |-> <<>>],
     [signed |-> Body0, chunks |-> <<<<91, 125>>>>],
     [signed |-> Body0, chunks |-> <<<<239, 187, 191>>, Body0>>],
     [signed |-> Body1, chunks |-> <<Body1>>],
     [signed |-> Body1, chunks |-> <<Body2>>],
     [signed |-> Body2, chunks |-> <<Body2>>]}

SigVariants(signed) ==
    {GarbledSig}
    \cup {Sig(k, t, signed) : k \in {WHSEC, "whsec_other"},
                              t \in {Now, Now - Tolerance, Now - Tolerance - 1}}

Ev0 == PaidCheckout("evt_1")

GoodRequest(doc) ==
    [path |-> WEBHOOKPATH, hasBody |-> TRUE, chunks |-> <<Body0>>,
     streamErr |-> FALSE, env |-> GoodEnv, sig |-> Sig(WHSEC, Now, Body0),
     doc |-> doc]

\* Requests that differ in what the guards before the verifier look at.
GuardRequests ==
    {[GoodRequest(Ev0) EXCEPT !.path = p, !.hasBody = hb,
                              !.chunks = IF ~hb THEN <<>>
                                         ELSE IF se THEN <<<<123>>>>
                                         ELSE <<Body0>>,
                              !.streamErr = hb /\ se, !.env = e, !.sig = sg] :
        p \in {WEBHOOKPATH, "/"}, hb \in BOOLEAN, se \in BOOLEAN, e \in Envs,
        sg \in {NoSig, Sig(WHSEC, Now, Body0)}}

\* Requests that differ in what the verifier looks at.
VerifyRequests ==
    UNION {{[GoodRequest(d) EXCEPT !.chunks = b.chunks, !.sig = sg] :
               sg \in SigVariants(b.signed), d \in {Ev0, Malformed}} :
           b \in BodyVariants}

\* Well-signed deliveries of every event.
EventRequests == {GoodRequest(ev) : ev \in Events}

Requests == GuardRequests \cup VerifyRequests \cup EventRequests

\* The deliveries that follow a side effect: well-signed deliveries of one
\* event of each kind, for every event id.
LaterRequests == {GoodRequest(ev) : ev \in KindEvents}

(***************************************************************************)
(* The handler's code between its suspension points, as operators.         *)
(* i is the version of the handler: "main" (src/main.ts) or "annotated"    *)
(* (src/unnamed/part_003).                                                 *)
(***************************************************************************)
Impls == {"main", "annotated"}

\* The guards that run before the body is read: the path (annotated only)
\* and the presence of a body.  open says that the body is read next.
BeforeBody(i, r) ==
    IF i = "annotated" /\ r.path # WEBHOOKPATH
    THEN [open |-> FALSE,
          resp |-> Response(404, "Not a stripe webhook endpoint")]
    ELSE IF ~r.hasBody
    THEN [open |-> FALSE,
          resp |-> IF i = "main" THEN Response(200, "No body")
                   ELSE Response(400, "No body included in webhook request.")]
    ELSE [open |-> TRUE, resp |-> NoResponse]

\* The configuration guard: main.ts wants all four values, the annotated
\* handler does not look at the publishable key.
ConfigMissing(i, env) ==
    \/ env.STRIPE_WEBHOOK_SIGNING_SECRET = MISSING
    \/ env.STRIPE_SECRET = MISSING
    \/ (i = "main" /\ env.STRIPE_PUBLISHABLE_KEY = MISSING)
    \/ env.STRIPE_PAYMENT_LINK_ID = MISSING

\* What the handler hands to constructEventAsync: main.ts the decoded string,
\* the annotated handler the collected bytes.
VerifierArg(i, rawBody) ==
    IF i = "main" THEN [kind |-> "string", val |-> TextDecode(rawBody)]
    ELSE [kind |-> "bytes", val |-> rawBody]

NoArg == [kind |-> "none", val |-> <<>>]

\* The two guards in the other order: the signature header first.
AfterBodySignatureFirst(i, r, rawBody) ==
    IF ~r.sig.present
    THEN [call |-> FALSE, arg |-> NoArg,
          resp |-> Response(400, IF i = "main" THEN "No signature"
                                 ELSE "Missing 'Stripe-Signature' header.")]
    ELSE IF ConfigMissing(i, r.env)
    THEN [call |-> FALSE, arg |-> NoArg,
          resp |-> Response(500, IF i = "main" THEN "No stripe creds"
                                 ELSE "Server configuration error")]
    ELSE [call |-> TRUE, arg |-> VerifierArg(i, rawBody), resp |-> NoResponse]

\* From the end of streamToBuffer to the call of the verifier: the
\* configuration guard, then the signature header guard.
AfterBody(i, r, rawBody) ==
    IF ConfigMissing(i, r.env)
    THEN [call |-> FALSE, arg |-> NoArg,
          resp |-> Response(500, IF i = "main" THEN "No stripe creds"
                                 ELSE "Server configuration error")]
    ELSE IF ~r.sig.present
    THEN [call |-> FALSE, arg |-> NoArg,
          resp |-> Response(400, IF i = "main" THEN "No signature"
                                 ELSE "Missing 'Stripe-Signature' header.")]
    ELSE [call |-> TRUE, arg |-> VerifierArg(i, rawBody), resp |-> NoResponse]

\* The catch block around constructEventAsync.
VerifyFailed(i, res) ==
    IF i = "main" THEN Response(400, "webhook error")
    ELSE IF res.errtype = "StripeSignatureVerificationError"
    THEN Response(400, "Webhook Error: Signature verification failed.")
    ELSE Response(400, "Webhook Error: Could not process webhook event.")

\* A comparison that also turns away the minimum amount itself.
BelowMinimumInclusive(amount) == amount <= MinimumAmount

\* amount_total < 50, amount_total < minimumAmount.
BelowMinimum(amount) == amount < MinimumAmount

\* A console entry: its fixed text, and the configuration values and strings
\* of the request that are written with it (numbers are left out).
Entry(text, values) == [text |-> text, values |-> values]

BoolText(b) == IF b THEN "true" ELSE "false"

\* What is logged by the guards that run before the body is read.
LogBeforeBody(i, r) ==
    IF i = "annotated" /\ r.path # WEBHOOKPATH
    THEN <<Entry("Received request for unexpected path", {r.path})>>
    ELSE IF i = "annotated" /\ ~r.hasBody
    THEN <<Entry("Webhook request received with no body.", {})>>
    ELSE <<>>

\* What is logged by the configuration guard and the signature header guard.
LogAfterBody(i, r) ==
    IF ConfigMissing(i, r.env)
    THEN IF i = "main"
         THEN <<Entry("NO STRIPE CREDENTIALS",
                      {r.env.STRIPE_PUBLISHABLE_KEY, r.env.STRIPE_SECRET,
                       r.env.STRIPE_WEBHOOK_SIGNING_SECRET})>>
         ELSE <<Entry("CRITICAL: Missing one or more required Stripe environment variables for webhook processing!", {}),
                Entry("Check environment variable status:",
                      {BoolText(r.env.STRIPE_WEBHOOK_SIGNING_SECRET # MISSING),
                       BoolText(r.env.STRIPE_SECRET # MISSING),
                       BoolText(r.env.STRIPE_PAYMENT_LINK_ID # MISSING)})>>
    ELSE IF ~r.sig.present
    THEN IF i = "main" THEN <<Entry("NO stripe signature", {})>>
         ELSE <<Entry("Webhook received without 'Stripe-Signature' header. Rejecting.", {})>>
    ELSE <<>>

\* What the catch block around constructEventAsync logs: main.ts the error,
\* the annotated handler its message.
LogVerifyFailed(i, res) ==
    IF i = "main" THEN <<Entry("Error web hook", {res.errtype, res.err})>>
    ELSE <<Entry("Webhook signature verification failed", {res.err})>>

\* main.ts, the checkout.session.completed branch.  effect says that the
\* place of the fulfillment logic was reached.
CheckoutMain(o, env) ==
    IF o.payment_link # env.STRIPE_PAYMENT_LINK_ID
    THEN [effect |-> FALSE, log |-> <<>>,
          resp |-> Response(400, "No payment link found")]
    ELSE IF o.payment_status # "paid"
            \/ o.amount_total = <<>> \/ o.amount_total[1] = 0
    THEN [effect |-> FALSE, log |-> <<>>,
          resp |-> Response(400, "Payment not paid yet")]
    ELSE IF o.customer_details = <<>>
    THEN [effect |-> FALSE, log |-> <<>>,
          resp |-> Response(400, "No customer details provided")]
    ELSE IF o.mode = "subscription" \/ o.mode = "setup"
    THEN [effect |-> FALSE, log |-> <<>>,
          resp |-> Response(400, "Not supported yet")]
    ELSE IF BelowMinimum(o.amount_total[1])
    THEN [effect |-> FALSE, log |-> <<>>,
          resp |-> Response(400, "Paid less than $0.50")]
    ELSE [effect |-> TRUE,
          log |-> <<Entry("Not implemented yet, but paid",
                          {o.payment_status, o.mode, o.payment_link,
                           o.customer_details[1].email})>>,
          resp |-> Response(200, "Not implemented yet, but paid")]

\* The annotated handler, the checkout.session.completed branch.
CheckoutAnnotated(o, env) ==
    IF o.payment_link # env.STRIPE_PAYMENT_LINK_ID
    THEN [effect |-> FALSE,
          log |-> <<Entry("unexpected payment link ID",
                          {o.payment_link, env.STRIPE_PAYMENT_LINK_ID})>>,
          resp |-> Response(200, "Payment link ID mismatch, event ignored.")]
    ELSE IF o.payment_status # "paid" \/ o.amount_total = <<>>
    THEN [effect |-> FALSE,
          log |-> <<Entry("payment status or amount_total is missing",
                          {o.payment_status})>>,
          resp |-> Response(200, "Payment not successfully confirmed ('paid') or amount missing.")]
    ELSE IF o.customer_details = <<>>
            \/ o.customer_details[1].email \in {NULLSTR, ""}
    THEN [effect |-> FALSE,
          log |-> <<Entry("completed without required customer details", {})>>,
          resp |-> Response(400, "Customer details (email) missing, cannot process.")]
    ELSE IF o.mode = "subscription" \/ o.mode = "setup"
    THEN [effect |-> FALSE,
          log |-> <<Entry("currently unsupported mode", {o.mode})>>,
          resp |-> Response(200, "Mode not supported by this webhook handler.")]
    ELSE IF BelowMinimum(o.amount_total[1])
    THEN [effect |-> FALSE,
          log |-> <<Entry("is below threshold", {})>>,
          resp |-> Response(400, "Paid amount is too small.")]
    ELSE [effect |-> TRUE,
          log |-> <<Entry("Payment SUCCESSFUL",
                          {o.customer_details[1].email})>>,
          resp |-> Response(200, "Payment processed successfully by worker.")]

Checkout(i, o, env) ==
    IF i = "main" THEN CheckoutMain(o, env) ELSE CheckoutAnnotated(o, env)

\* The subscription events: updateSubscribed of main.ts, and the inline
\* branch of the annotated handler, which also removes a paused subscription.
\* effect says that the place of the removal logic was reached.
Subscription(i, o) ==
    LET shouldRemoveSubscription ==
            \/ o.status = "unpaid"
            \/ o.status = "canceled"
            \/ (i = "annotated" /\ o.status = "paused")
    IN IF ~shouldRemoveSubscription
       THEN [effect |-> FALSE,
             log |-> IF i = "main" THEN <<>>
                     ELSE <<Entry("does not require removal action",
                                  {o.status})>>,
             resp |-> Response(200, IF i = "main" THEN "No action required"
                                    ELSE "Subscription update received, no removal action needed based on status.")]
       ELSE [effect |-> TRUE,
             log |-> IF i = "main" THEN <<>>
                     ELSE <<Entry("requires removal/update due to status",
                                  {o.status})>>,
             resp |-> Response(200, IF i = "main" THEN "Removed from subscribers"
                                    ELSE "Subscription processed.")]

\* The events no branch handles.
Fallthrough(i) ==
    IF i = "main" THEN Response(404, "Invalid event")
    ELSE Response(200, "Unhandled event type received and acknowledged.")

(***************************************************************************)
(* State.                                                                  *)
(***************************************************************************)
VARIABLES
    impl,      \* the version of the handler that is deployed
    pc,        \* per slot: idle, reading, collected, failed, verifying,
               \* updating, done
    req,       \* per slot: the request being handled
    got,       \* per slot: the chunks streamToBuffer has collected
    locked,    \* per slot: the body stream's reader holds its lock
    rawBody,   \* per slot: the buffer streamToBuffer returned
    varg,      \* per slot: the payload handed to the verifier, NoArg if none
    handler,   \* per slot: the branch the event went to, "none" if none
    effect,    \* per slot: the place of the side effect was reached
    resp,      \* per slot: what fetch produced
    log,       \* per slot: the console entries written for the request
    effects    \* per event id: how often the place of its side effect was reached

vars == <<impl, pc, req, got, locked, rawBody, varg, handler, effect, resp,
          log, effects>>

\* What a slot holds while no request is in it.
NoRequest == GoodRequest(Malformed)

Init ==
    /\ impl \in Impls
    /\ pc = [s \in Slots |-> "idle"]
    /\ req = [s \in Slots |-> NoRequest]
    /\ got = [s \in Slots |-> <<>>]
    /\ locked = [s \in Slots |-> FALSE]
    /\ rawBody = [s \in Slots |-> <<>>]
    /\ varg = [s \in Slots |-> NoArg]
    /\ handler = [s \in Slots |-> "none"]
    /\ effect = [s \in Slots |-> FALSE]
    /\ resp = [s \in Slots |-> NoResponse]
    /\ log = [s \in Slots |-> <<>>]
    /\ effects = [id \in EventIds |-> 0]

RECURSIVE TotalEffects(_)
\* How often side effects have run, over the event ids in ids.
TotalEffects(ids) ==
    IF ids = {} THEN 0
    ELSE LET id == CHOOSE x \in ids : TRUE
         IN effects[id] + TotalEffects(ids \ {id})

\* fetch ends for slot s with r.
Finish(s, r) ==
    /\ pc' = [pc EXCEPT ![s] = "done"]
    /\ resp' = [resp EXCEPT ![s] = r]

\* A request arrives and runs to its first suspension point: the guards before
\* the body, then getReader() and the first reader.read().  While another
\* request is in a slot, only a duplicate delivery of it arrives.  Every
\* request arrives while no side effect has run; the handler keeps nothing
\* from one request to the next, so once a side effect has run only the
\* deliveries of LaterRequests follow.  Slots are interchangeable: a request
\* takes the lowest free one.
Deliver(s) ==
    /\ pc[s] = "idle"
    /\ \A o \in Slots : o < s => pc[o] # "idle"
    /\ TotalEffects(EventIds) < MaxRuns
    /\ \E r \in Requests :
        /\ \A o \in Slots \ {s} : pc[o] # "idle" => req[o] = r
        /\ TotalEffects(EventIds) > 0 => r \in LaterRequests
        /\ req' = [req EXCEPT ![s] = r]
        /\ log' = [log EXCEPT ![s] = LogBeforeBody(impl, r)]
        /\ LET b == BeforeBody(impl, r) IN
           IF b.open
           THEN /\ pc' = [pc EXCEPT ![s] = "reading"]
                /\ locked' = [locked EXCEPT ![s] = TRUE]
                /\ UNCHANGED resp
           ELSE /\ Finish(s, b.resp)
                /\ UNCHANGED locked
    /\ UNCHANGED <<impl, got, rawBody, varg, handler, effect, effects>>

\* reader.read() gives the next chunk: streamToBuffer pushes it and reads on.
ReadChunk(s) ==
    /\ pc[s] = "reading"
    /\ Len(got[s]) < Len(req[s].chunks)
    /\ got' = [got EXCEPT ![s] = Append(@, req[s].chunks[Len(@) + 1])]
    /\ UNCHANGED <<impl, pc, req, locked, rawBody, varg, handler, effect, resp,
                   log, effects>>

\* reader.read() gives done: streamToBuffer releases the lock, builds the
\* buffer and returns it.  fetch, which awaits it, resumes in a later turn.
ReadEnd(s) ==
    /\ pc[s] = "reading"
    /\ Len(got[s]) = Len(req[s].chunks)
    /\ ~req[s].streamErr
    /\ locked' = [locked EXCEPT ![s] = FALSE]
    /\ rawBody' = [rawBody EXCEPT ![s] = ConcatChunks(got[s])]
    /\ pc' = [pc EXCEPT ![s] = "collected"]
    /\ UNCHANGED <<impl, req, got, varg, handler, effect, resp, log, effects>>

\* fetch resumes with the buffer: it decodes it, runs the configuration and
\* signature header guards and goes on to the call of the verifier.
BodyReturn(s) ==
    /\ pc[s] = "collected"
    /\ log' = [log EXCEPT ![s] = @ \o LogAfterBody(impl, req[s])]
    /\ LET a == AfterBody(impl, req[s], rawBody[s]) IN
       IF a.call
       THEN /\ pc' = [pc EXCEPT ![s] = "verifying"]
            /\ varg' = [varg EXCEPT ![s] = a.arg]
            /\ UNCHANGED resp
       ELSE /\ Finish(s, a.resp)
            /\ UNCHANGED varg
    /\ UNCHANGED <<impl, req, got, locked, rawBody, handler, effect, effects>>

\* reader.read() rejects: the finally block releases the lock and
\* streamToBuffer rejects.  fetch, which awaits it, resumes in a later turn.
ReadError(s) ==
    /\ pc[s] = "reading"
    /\ Len(got[s]) = Len(req[s].chunks)
    /\ req[s].streamErr
    /\ locked' = [locked EXCEPT ![s] = FALSE]
    /\ pc' = [pc EXCEPT ![s] = "failed"]
    /\ UNCHANGED <<impl, req, got, rawBody, varg, handler, effect, resp, log,
                   effects>>

\* fetch resumes with the rejection of streamToBuffer: nothing in fetch
\* catches it.
BodyThrow(s) ==
    /\ pc[s] = "failed"
    /\ Finish(s, Uncaught("body stream error"))
    /\ UNCHANGED <<impl, req, got, locked, rawBody, varg, handler, effect, log,
                   effects>>

\* The side effect of event id runs once more.
RunEffect(s, id, ran) ==
    /\ effect' = [effect EXCEPT ![s] = ran]
    /\ effects' = [effects EXCEPT ![id] = IF ran THEN @ + 1 ELSE @]

\* constructEventAsync settles: the catch block answers a failure; an event is
\* dispatched on its type and handled up to the next suspension point.
VerifyReturn(s) ==
    /\ pc[s] = "verifying"
    /\ LET r == req[s]
           res == ConstructEvent(varg[s], r.sig,
                                 r.env.STRIPE_WEBHOOK_SIGNING_SECRET, r.doc)
           event == r.doc
       IN IF ~res.ok
          THEN /\ Finish(s, VerifyFailed(impl, res))
               /\ log' = [log EXCEPT ![s] = @ \o LogVerifyFailed(impl, res)]
               /\ UNCHANGED <<handler, effect, effects>>
          ELSE IF event.type = CHECKOUT
          THEN LET c == Checkout(impl, event.object, r.env) IN
               /\ handler' = [handler EXCEPT ![s] = "checkout"]
               /\ RunEffect(s, event.id, c.effect)
               /\ log' = [log EXCEPT
                             ![s] = @ \o c.log]
               /\ Finish(s, c.resp)
          ELSE IF event.type \in SubscriptionTypes
          THEN LET u == Subscription(impl, event.object) IN
               /\ handler' = [handler EXCEPT ![s] = "subscription"]
               /\ RunEffect(s, event.id, u.effect)
               /\ log' = [log EXCEPT
                             ![s] = @ \o u.log]
               /\ IF impl = "main"
                  THEN /\ pc' = [pc EXCEPT ![s] = "updating"]
                       /\ UNCHANGED resp
                  ELSE Finish(s, u.resp)
          ELSE /\ handler' = [handler EXCEPT ![s] = "default"]
               /\ Finish(s, Fallthrough(impl))
               /\ UNCHANGED <<effect, log, effects>>
    /\ UNCHANGED <<impl, req, got, locked, rawBody, varg>>

\* main.ts: the await of updateSubscribed resumes and its result is sent.
UpdateReturn(s) ==
    /\ pc[s] = "updating"
    /\ Finish(s, Subscription(impl, req[s].doc.object).resp)
    /\ UNCHANGED <<impl, req, got, locked, rawBody, varg, handler, effect, log,
                   effects>>

\* The response has gone out; the slot is free for the next request.
Release(s) ==
    /\ pc[s] = "done"
    /\ pc' = [pc EXCEPT ![s] = "idle"]
    /\ req' = [req EXCEPT ![s] = NoRequest]
    /\ got' = [got EXCEPT ![s] = <<>>]
    /\ rawBody' = [rawBody EXCEPT ![s] = <<>>]
    /\ varg' = [varg EXCEPT ![s] = NoArg]
    /\ handler' = [handler EXCEPT ![s] = "none"]
    /\ effect' = [effect EXCEPT ![s] = FALSE]
    /\ resp' = [resp EXCEPT ![s] = NoResponse]
    /\ log' = [log EXCEPT ![s] = <<>>]
    /\ UNCHANGED <<impl, locked, effects>>

Next ==
    \E s \in Slots :
        \/ Deliver(s)
        \/ ReadChunk(s)
        \/ ReadEnd(s)
        \/ BodyReturn(s)
        \/ ReadError(s)
        \/ BodyThrow(s)
        \/ VerifyReturn(s)
        \/ UpdateReturn(s)
        \/ Release(s)

Spec == Init /\ [][Next]_vars

\* The premises of termination: a body stream that is being read signals its
\* next chunk, its end or its error; fetch resumes once streamToBuffer has
\* settled; a verifier call, and the await of updateSubscribed, settle.
\* Nothing makes a request arrive.
LiveSpec ==
    /\ Spec
    /\ \A s \in Slots :
          /\ WF_vars(ReadChunk(s))
          /\ WF_vars(ReadEnd(s))
          /\ WF_vars(BodyReturn(s))
          /\ WF_vars(ReadError(s))
          /\ WF_vars(BodyThrow(s))
          /\ WF_vars(VerifyReturn(s))
          /\ WF_vars(UpdateReturn(s))

TypeOK ==
    /\ impl \in Impls
    /\ \A s \in Slots :
        /\ pc[s] \in {"idle", "reading", "collected", "failed", "verifying",
                    "updating", "done"}
        /\ req[s] \in Requests
        /\ handler[s] \in {"none", "checkout", "subscription", "default"}
        /\ effect[s] \in BOOLEAN
        /\ locked[s] \in BOOLEAN
    /\ \A id \in EventIds : effects[id] \in 0..(MaxRuns + NSlots)

(***************************************************************************)
(* Vocabulary of the properties.                                           *)
(***************************************************************************)
Done(s) == pc[s] = "done"
Responded(s) == resp[s].kind = "response"
Success(s) == Responded(s) /\ resp[s].status \in 200..299
ClientError(s) == Responded(s) /\ resp[s].status \in 400..499
ServerError(s) == Responded(s) /\ resp[s].status \in 500..599

\* The verifier was called for the request in s.
VerifierCalled(s) == varg[s] # NoArg
\* The verifier was called for the request in s and gave an event.
Verified(s) ==
    /\ VerifierCalled(s)
    /\ ConstructEvent(varg[s], req[s].sig,
                      req[s].env.STRIPE_WEBHOOK_SIGNING_SECRET, req[s].doc).ok
\* No event handler ran for the request in s, and no side effect.
Untouched(s) == handler[s] = "none" /\ ~effect[s]

\* The request in s is done and carried a verified event of type t.
DoneEvent(s, types) == Done(s) /\ Verified(s) /\ req[s].doc.type \in types

\* The preconditions of fulfillment, as the specification lists them.
EmailPresent(o) ==
    o.customer_details # <<>> /\ o.customer_details[1].email \notin {NULLSTR, ""}
Fulfillable(o) ==
    /\ o.payment_link = PLINK
    /\ o.payment_status = "paid"
    /\ o.amount_total # <<>>
    /\ o.amount_total[1] >= MinimumAmount
    /\ EmailPresent(o)
    /\ o.mode \notin {"subscription", "setup"}

(***************************************************************************)
(* C1.  Idempotency under at-least-once delivery: however often an event   *)
(* id is delivered, and in whatever order with other events, its           *)
(* fulfillment or revoke side effect runs at most once in total, and every *)
(* delivery that is let through to the side effect is acknowledged with a  *)
(* success status.                                                         *)
(***************************************************************************)
C1_SideEffectOncePerEventId ==
    /\ \A id \in EventIds : effects[id] <= 1
    /\ \A s \in Slots : Done(s) /\ effect[s] => Success(s)

(***************************************************************************)
(* C2.  Concurrent duplicate delivery: of two requests in flight that      *)
(* carry the same event id, at most one runs the side effect.              *)
(***************************************************************************)
C2_ConcurrentDuplicatesRunOnce ==
    \A s, t \in Slots :
        (/\ s # t
         /\ pc[s] # "idle" /\ pc[t] # "idle"
         /\ Verified(s) /\ Verified(t)
         /\ req[s].doc.id = req[t].doc.id)
        => ~(effect[s] /\ effect[t])

(***************************************************************************)
(* C4.  Every run of the handler ends in a response with a defined status  *)
(* code: no exception escapes fetch.                                       *)
(***************************************************************************)
C4_EveryPathResponds ==
    \A s \in Slots : Done(s) => Responded(s) /\ resp[s].status \in 100..599

(***************************************************************************)
(* C5.  Transport errors are client errors: a request without a body, and  *)
(* a request whose body stream ends with an error, get a 4xx response, and *)
(* neither the verifier nor a handler nor a side effect runs for them.     *)
(***************************************************************************)
C5_TransportErrorsAreClientErrors ==
    \A s \in Slots :
        Done(s) /\ (~req[s].hasBody \/ req[s].streamErr)
        => ClientError(s) /\ ~VerifierCalled(s) /\ Untouched(s)

(***************************************************************************)
(* C6.  Authentication gate: an event goes to a handler only if the        *)
(* request carried a signature header and the verifier accepted the body;  *)
(* every request whose signature header is missing or whose verification   *)
(* fails gets a 4xx response and no handler or side effect.                *)
(***************************************************************************)
C6_AuthenticationGate ==
    \A s \in Slots :
        /\ handler[s] # "none" \/ effect[s] => req[s].sig.present /\ Verified(s)
        /\ Done(s) /\ (~req[s].sig.present \/ (VerifierCalled(s) /\ ~Verified(s)))
           => ClientError(s) /\ Untouched(s)

(***************************************************************************)
(* C7.  Default route: every verified event whose type is neither          *)
(* checkout.session.completed nor a handled subscription type is           *)
(* acknowledged with a success status, and neither the checkout nor the    *)
(* subscription handler nor a side effect runs for it.                     *)
(***************************************************************************)
C7_DefaultRouteAcknowledges ==
    \A s \in Slots :
        DoneEvent(s, {OTHERTYPE})
        => Success(s) /\ handler[s] = "default" /\ ~effect[s]

(***************************************************************************)
(* C8.  A verified checkout.session.completed event is fulfilled (success  *)
(* status, grant side effect run) if and only if the product reference is  *)
(* the configured one, it is paid, amount_total is not null and at least   *)
(* the minimum, the customer has a non-empty email, the mode is neither    *)
(* subscription nor setup, and no other delivery of the event id has run   *)
(* the side effect.                                                        *)
(***************************************************************************)
C8_FulfilledExactlyWhen ==
    \A s \in Slots :
        DoneEvent(s, {CHECKOUT})
        => LET elsewhere == effects[req[s].doc.id] - (IF effect[s] THEN 1 ELSE 0)
           IN (effect[s] /\ Success(s))
              <=> (Fulfillable(req[s].doc.object) /\ elsewhere = 0)

(***************************************************************************)
(* C9.  Missing customer data is rejected: a verified checkout event with  *)
(* the expected product reference, paid, with an amount, whose customer is *)
(* null or has no email, gets a 4xx response and no grant.                 *)
(***************************************************************************)
C9_MissingCustomerRejected ==
    \A s \in Slots :
        LET o == req[s].doc.object IN
        (/\ DoneEvent(s, {CHECKOUT})
         /\ o.payment_link = PLINK
         /\ o.payment_status = "paid"
         /\ o.amount_total # <<>>
         /\ ~EmailPresent(o))
        => ClientError(s) /\ ~effect[s]

(***************************************************************************)
(* C10.  Product mismatch is ignored, not failed: a verified checkout      *)
(* event whose payment link differs from the configured one gets a success *)
(* status and no side effect, whatever its other fields.                   *)
(***************************************************************************)
C10_ProductMismatchIgnored ==
    \A s \in Slots :
        DoneEvent(s, {CHECKOUT}) /\ req[s].doc.object.payment_link # PLINK
        => Success(s) /\ ~effect[s]

(***************************************************************************)
(* Which check of the checkout branch a response comes from, told by its   *)
(* message.                                                                *)
(***************************************************************************)
MismatchMsgs == {"No payment link found",
                 "Payment link ID mismatch, event ignored."}
NotPaidMsgs == {"Payment not paid yet",
                "Payment not successfully confirmed ('paid') or amount missing."}
CustomerMsgs == {"No customer details provided",
                 "Customer details (email) missing, cannot process."}
ModeMsgs == {"Not supported yet",
             "Mode not supported by this webhook handler."}
AmountMsgs == {"Paid less than $0.50", "Paid amount is too small."}

(***************************************************************************)
(* C11.  The 'not paid' outcome exactly when not paid or amount null: a    *)
(* verified checkout event with the expected payment link gets the 'not    *)
(* paid' response if and only if payment_status is not paid or             *)
(* amount_total is null, and that response has a success status; a paid    *)
(* session with amount_total 0 goes on to the later checks.                *)
(***************************************************************************)
C11_NotPaidExactlyWhen ==
    \A s \in Slots :
        LET o == req[s].doc.object IN
        DoneEvent(s, {CHECKOUT}) /\ o.payment_link = PLINK
        => /\ resp[s].msg \in NotPaidMsgs
                <=> (o.payment_status # "paid" \/ o.amount_total = <<>>)
           /\ resp[s].msg \in NotPaidMsgs => Success(s)

(***************************************************************************)
(* C12.  Unsupported mode is ignored: a verified checkout event that       *)
(* passed the product, paid and customer checks and whose mode is          *)
(* subscription or setup gets a success status, and the grant side effect  *)
(* does not run.                                                           *)
(***************************************************************************)
C12_UnsupportedModeIgnored ==
    \A s \in Slots :
        LET o == req[s].doc.object IN
        (/\ DoneEvent(s, {CHECKOUT})
         /\ o.payment_link = PLINK
         /\ o.payment_status = "paid" /\ o.amount_total # <<>>
         /\ EmailPresent(o)
         /\ o.mode \in {"subscription", "setup"})
        => Success(s) /\ ~effect[s]

(***************************************************************************)
(* C13.  Amount threshold: a verified checkout event that passed the       *)
(* product, paid, customer and mode checks is rejected with a 4xx status   *)
(* and no grant when amount_total is below 50, and is accepted (success    *)
(* status, grant reached) when amount_total is 50 or more.                 *)
(***************************************************************************)
C13_AmountThreshold ==
    \A s \in Slots :
        LET o == req[s].doc.object IN
        (/\ DoneEvent(s, {CHECKOUT})
         /\ o.payment_link = PLINK
         /\ o.payment_status = "paid" /\ o.amount_total # <<>>
         /\ EmailPresent(o)
         /\ o.mode \notin {"subscription", "setup"})
        => IF o.amount_total[1] < 50
           THEN ClientError(s) /\ ~effect[s]
           ELSE Success(s) /\ effect[s]

\* A session of 49 was rejected by the amount check.
C13_Witness ==
    \E s \in Slots :
        LET o == req[s].doc.object IN
        /\ DoneEvent(s, {CHECKOUT})
        /\ Fulfillable([o EXCEPT !.amount_total = <<50>>])
        /\ o.amount_total = <<49>>
        /\ resp[s].msg \in AmountMsgs /\ ClientError(s) /\ ~effect[s]

(***************************************************************************)
(* C14.  Subscription handling: for a verified subscription event the      *)
(* removal is reached if and only if the status is unpaid, canceled or     *)
(* paused; the response has a success status either way.                   *)
(***************************************************************************)
C14_RevokeExactlyWhen ==
    \A s \in Slots :
        DoneEvent(s, SubscriptionTypes)
        => /\ effect[s]
                <=> req[s].doc.object.status \in {"unpaid", "canceled", "paused"}
           /\ Success(s)

\* The bytes of the value handed to the verifier: a byte array as it is, a
\* string by its UTF-8 encoding.
ArgBytes(arg) == IF arg.kind = "bytes" THEN arg.val ELSE TextEncode(arg.val)

(***************************************************************************)
(* C15.  Byte-exactness: whenever the verifier is called, the value handed *)
(* to it is, byte for byte, what arrived on the request stream, whatever   *)
(* the bytes are (not valid UTF-8, or starting with a byte order mark);    *)
(* and a body that differs from the signed bytes is not verified.          *)
(***************************************************************************)
C15_VerifierArgIsReceivedBytes ==
    \A s \in Slots :
        VerifierCalled(s)
        => /\ ArgBytes(varg[s]) = ConcatChunks(req[s].chunks)
           /\ Verified(s) => ConcatChunks(req[s].chunks) = req[s].sig.mac.msg

\* The secret values of a configuration: the webhook signing secret and the
\* provider secret key, where they are set.
Secrets(env) == {env.STRIPE_WEBHOOK_SIGNING_SECRET, env.STRIPE_SECRET} \ {MISSING}

(***************************************************************************)
(* C16.  Secret confidentiality: for every request and configuration, no   *)
(* console entry written for the request carries the webhook signing       *)
(* secret or the provider secret key, and the response body is neither of  *)
(* them.                                                                   *)
(***************************************************************************)
C16_SecretsNeverWritten ==
    \A s \in Slots :
        /\ \A k \in 1..Len(log[s]) :
              log[s][k].values \cap Secrets(req[s].env) = {}
        /\ resp[s].msg \notin Secrets(req[s].env)

RECURSIVE SumLen(_)
\* The sum of the lengths of the chunks.
SumLen(chunks) ==
    IF chunks = <<>> THEN 0 ELSE Len(Head(chunks)) + SumLen(Tail(chunks))

\* The body of the request in s was opened and read to the end of the stream.
Collected(s) ==
    /\ pc[s] \in {"collected", "verifying", "updating", "done"}
    /\ BeforeBody(impl, req[s]).open
    /\ ~req[s].streamErr

(***************************************************************************)
(* C17.  Body collector: streamToBuffer pushes the chunks in their order   *)
(* of arrival and returns only at the end of the stream; the buffer it     *)
(* returns has the sum of the chunks' lengths and holds every byte of      *)
(* every chunk at its place, however the bytes were split into chunks; the *)
(* reader's lock is held only inside the read loop, so it is released on   *)
(* the normal and on the error path, and a stream error hands no buffer    *)
(* on.                                                                     *)
(***************************************************************************)
C17_BodyCollector ==
    \A s \in Slots :
        LET chunks == req[s].chunks IN
        /\ locked[s] <=> pc[s] = "reading"
        /\ pc[s] = "reading" => got[s] = SubSeq(chunks, 1, Len(got[s]))
        /\ Collected(s)
           => /\ got[s] = chunks
              /\ Len(rawBody[s]) = SumLen(chunks)
              /\ \A k \in 1..Len(chunks) : \A j \in 1..Len(chunks[k]) :
                    rawBody[s][SumLen(SubSeq(chunks, 1, k - 1)) + j]
                        = chunks[k][j]
        /\ Done(s) /\ req[s].streamErr /\ BeforeBody(impl, req[s]).open
           => resp[s].kind = "exception" /\ ~VerifierCalled(s)

\* A body that arrived as a byte order mark and then the document, in two
\* chunks, was collected into one buffer of five bytes and the lock released.
C17_Witness ==
    \E s \in Slots :
        /\ Collected(s) /\ ~locked[s]
        /\ req[s].chunks = <<<<239, 187, 191>>, <<123, 125>>>>
        /\ rawBody[s] = <<239, 187, 191, 123, 125>>

\* The check of the checkout branch a response comes from; "none" for the
\* response of the fulfillment.
CheckOf(msg) ==
    IF msg \in MismatchMsgs THEN "product"
    ELSE IF msg \in NotPaidMsgs THEN "paid"
    ELSE IF msg \in CustomerMsgs THEN "customer"
    ELSE IF msg \in ModeMsgs THEN "mode"
    ELSE IF msg \in AmountMsgs THEN "amount"
    ELSE "none"

\* The first check a session fails, in the order product reference, paid and
\* amount not null, customer email, mode, minimum amount; "none" if it fails
\* none of them.
FirstFailingCheck(o) ==
    IF o.payment_link # PLINK THEN "product"
    ELSE IF o.payment_status # "paid" \/ o.amount_total = <<>> THEN "paid"
    ELSE IF ~EmailPresent(o) THEN "customer"
    ELSE IF o.mode \in {"subscription", "setup"} THEN "mode"
    ELSE IF o.amount_total[1] < MinimumAmount THEN "amount"
    ELSE "none"

(***************************************************************************)
(* C18.  Checkout validation precedence: the response to a verified        *)
(* checkout event, a first or a repeated delivery, is the one of the first *)
(* check the session fails in the order product reference, paid and amount *)
(* not null, customer email, mode, minimum amount: a success status for    *)
(* the ignored outcomes (product, paid, mode), a 4xx status for the        *)
(* rejected ones (customer, amount), and no grant when a check fails.      *)
(***************************************************************************)
C18_FirstFailingCheckDecides ==
    \A s \in Slots :
        DoneEvent(s, {CHECKOUT})
        => LET check == FirstFailingCheck(req[s].doc.object) IN
           /\ CheckOf(resp[s].msg) = check
           /\ check \in {"product", "paid", "mode"} => Success(s)
           /\ check \in {"customer", "amount"} => ClientError(s)
           /\ check # "none" => ~effect[s]

\* The configuration values a handler cannot do without.
RequiredValues(i) ==
    {"STRIPE_WEBHOOK_SIGNING_SECRET", "STRIPE_SECRET", "STRIPE_PAYMENT_LINK_ID"}
    \cup (IF i = "main" THEN {"STRIPE_PUBLISHABLE_KEY"} ELSE {})

\* The first guard a request fails, in the order path (where the handler has
\* the guard), body, configuration, signature header; "none" if it fails none.
FirstFailingGuard(i, r) ==
    IF i = "annotated" /\ r.path # WEBHOOKPATH THEN "path"
    ELSE IF ~r.hasBody THEN "body"
    ELSE IF \E k \in RequiredValues(i) : r.env[k] = MISSING THEN "config"
    ELSE IF ~r.sig.present THEN "signature"
    ELSE "none"

\* The guard a response comes from, told by its message; "none" for the
\* responses that come after the guards.
GuardOf(msg) ==
    IF msg = "Not a stripe webhook endpoint" THEN "path"
    ELSE IF msg \in {"No body", "No body included in webhook request."}
    THEN "body"
    ELSE IF msg \in {"No stripe creds", "Server configuration error"}
    THEN "config"
    ELSE IF msg \in {"No signature", "Missing 'Stripe-Signature' header."}
    THEN "signature"
    ELSE "none"

LeavesReadLoop(s) == pc[s] = "reading" /\ pc'[s] # "reading"

(***************************************************************************)
(* C20.  Termination: a request whose body stream signals its end or an    *)
(* error, and whose verifier call settles, is eventually done; a request   *)
(* that is done has got a response; the read loop is left only when the    *)
(* stream has given all it had (its end or its error), never after a part  *)
(* of the chunks.                                                          *)
(***************************************************************************)
C20_TerminatesWithResponse ==
    /\ \A s \in Slots : (pc[s] # "idle") ~> Done(s)
    /\ [](\A s \in Slots : Done(s) => Responded(s))
    /\ [][\A s \in Slots : LeavesReadLoop(s) => got[s] = req[s].chunks]_vars

====
